---- MODULE Spec2Model ----
(***************************************************************************)
(* A model of Recipe_Architect.py: the three tools (create_recipe,         *)
(* get_nutritional_info, generate_recipe_image), the PDF renderer          *)
(* (create_recipe_pdf) and the Streamlit script that runs them and keeps   *)
(* their results in st.session_state.                                      *)
(*                                                                         *)
(* Spec     : the script as a state machine, one script run per user       *)
(*            interaction, the external services as nondeterministic       *)
(*            inputs.                                                      *)
(* SpecText : the two text transformations of the script (the instruction  *)
(*            prefix stripping and the download file name) applied to      *)
(*            every string over a small alphabet.                          *)
(***************************************************************************)
EXTENDS Integers, Sequences, FiniteSets, TLC

VARIABLES
    pc,                \* position of the running script ("idle": no run)
    PEXELS_API_KEY,    \* line 26, read once at start-up
    session_state,     \* st.session_state: recipe_data, nutrition_data, image_url
    stamp,             \* ghost: the pipeline run that wrote each session slot
    run,               \* ghost: number of pipeline runs started so far
    locals,            \* script variables of the current run (recipe, image, nutrition stage)
    calls,             \* ghost: the tools invoked by the current run, in order
    tmpfiles,          \* temporary files that exist on disk
    out,               \* what the last script run displayed / rendered
    text               \* SpecText: the string being transformed and the result

vars == <<pc, PEXELS_API_KEY, session_state, stamp, run, locals, calls, tmpfiles, out, text>>

(***************************************************************************)
(* Bounds                                                                  *)
(***************************************************************************)
MaxRuns == 2
MaxTmp == 1
MaxLen == 4
MaxSteps == 2

(***************************************************************************)
(* Python values.  None, str, dict (JSON object) and list (JSON array).    *)
(***************************************************************************)
None == [kind |-> "none"]
Str(s) == [kind |-> "str", s |-> s]
Obj(f) == [kind |-> "object", obj |-> f]
Arr(items) == [kind |-> "array", items |-> items]

\* Python truthiness: if x / not x
Truthy(v) ==
    CASE v.kind = "none" -> FALSE
      [] v.kind = "str" -> v.s # ""
      [] v.kind = "object" -> DOMAIN v.obj # {}
      [] v.kind = "array" -> Len(v.items) > 0

\* v[k] does not raise (KeyError on a dict without k, TypeError on anything else)
HasKey(v, k) == v.kind = "object" /\ k \in DOMAIN v.obj

HasKeys(v, ks) == \A k \in ks : HasKey(v, k)

(***************************************************************************)
(* Text exchanged with the text-generation service: a sequence of chunks.  *)
(* A chunk is a markdown fence, whitespace, prose, or the text of one JSON *)
(* document.                                                               *)
(***************************************************************************)
Chunk(tok) == [tok |-> tok, doc |-> None]
FenceJson == Chunk("fence_json")   \* three backticks followed by json
Fence == Chunk("fence")   \* three backticks
Ws == Chunk("whitespace")
Prose == Chunk("Here is your recipe:")
Json(v) == [tok |-> "json", doc |-> v]

\* str.replace(old, empty string): every occurrence of the chunk is removed
Replace(content, old) == SelectSeq(content, LAMBDA c : c # old)

RECURSIVE LStrip(_)
LStrip(s) == IF s # <<>> /\ Head(s) = Ws THEN LStrip(Tail(s)) ELSE s

RECURSIVE RStrip(_)
RStrip(s) == IF s # <<>> /\ s[Len(s)] = Ws THEN RStrip(SubSeq(s, 1, Len(s) - 1)) ELSE s

\* str.strip()
Strip(s) == RStrip(LStrip(s))

\* json.loads(s) succeeds: s is one JSON document, whitespace around it allowed
JsonParses(s) == Len(Strip(s)) = 1 /\ Strip(s)[1].tok = "json"

\* json.loads(s), where it succeeds
JsonLoads(s) == Strip(s)[1].doc

\* json.dumps(v)
JsonDumps(v) == <<Json(v)>>

(***************************************************************************)
(* Results of a call: a value, or an exception raised to the caller.       *)
(***************************************************************************)
Return(v) == [raised |-> FALSE, value |-> v]
Raise == [raised |-> TRUE, value |-> None]

(***************************************************************************)
(* The text-generation service: llm.invoke raises, or returns content.     *)
(***************************************************************************)
RecipeKeys == {"title", "description", "ingredients", "instructions", "image_keywords"}
NutritionKeys == {"calories", "protein_grams", "fat_grams", "carbs_grams", "summary"}

PastaRecipe ==
    Obj([title |-> "Chicken Broccoli Pasta", description |-> "A quick dinner.",
         ingredients |-> <<"chicken", "broccoli", "pasta">>,
         instructions |-> <<"1. Boil the pasta", "2) Mix well">>,
         image_keywords |-> "chicken pasta"])

\* valid JSON without the image_keywords key
NoKeywordsRecipe ==
    Obj([title |-> "Spicy Garlic Shrimp!", description |-> "Hot.",
         ingredients |-> <<"shrimp">>, instructions |-> <<"Fry">>])

\* valid JSON with only a title
TitleOnlyRecipe == Obj([title |-> "Soup"])

\* the last one is valid JSON that is not an object
RecipeDocs == {PastaRecipe, NoKeywordsRecipe, TitleOnlyRecipe, Arr(<<"pasta">>)}

PastaNutrition ==
    Obj([calories |-> 520, protein_grams |-> 35, fat_grams |-> 12, carbs_grams |-> 60,
         summary |-> "Balanced."])

NutritionDocs == {PastaNutrition, Obj([calories |-> 520]), Arr(<<520>>)}

\* The contents the service may answer with, for the documents docs
Contents(docs) ==
    {<<Json(d)>> : d \in docs}
      \cup {<<FenceJson, Ws, Json(d), Ws, Fence>> : d \in docs}
      \cup {<<>>, <<Prose>>, <<Fence, Prose, Fence>>}
      \cup {<<Prose, Ws, Json(d)>> : d \in docs}

LlmOutcomes(docs) ==
    {[raises |-> TRUE, content |-> <<>>]}
      \cup {[raises |-> FALSE, content |-> c] : c \in Contents(docs)}

(***************************************************************************)
(* create_recipe, lines 36-66                                              *)
(***************************************************************************)
SentinelRecipe ==
    Obj([title |-> "Failed to generate recipe", description |-> "Please try again.",
         ingredients |-> <<>>, instructions |-> <<>>, image_keywords |-> ""])

\* lines 54-57 and 86-89: the body of the try block
InvokeAndParse(llm) ==
    IF llm.raises THEN Raise
    ELSE LET json_content == Strip(Replace(Replace(llm.content, FenceJson), Fence))
         IN  IF JsonParses(json_content) THEN Return(json_content) ELSE Raise

\* a handler that lets the service's exception through
create_recipe_uncaught(llm) ==
    LET r == InvokeAndParse(llm)
    IN  IF r.raised /\ ~llm.raises THEN Return(JsonDumps(SentinelRecipe)) ELSE r

create_recipe(llm) ==
    LET r == InvokeAndParse(llm)
    IN  IF r.raised THEN Return(JsonDumps(SentinelRecipe)) ELSE r

(***************************************************************************)
(* get_nutritional_info, lines 68-95                                       *)
(***************************************************************************)
SentinelNutrition ==
    Obj([calories |-> 0, protein_grams |-> 0, fat_grams |-> 0, carbs_grams |-> 0,
         summary |-> "Nutritional info unavailable."])

get_nutritional_info(llm) ==
    LET r == InvokeAndParse(llm)
    IN  IF r.raised THEN Return(JsonDumps(SentinelNutrition)) ELSE r

(***************************************************************************)
(* generate_recipe_image, lines 97-117                                     *)
(*                                                                         *)
(* An outcome of the search request: requests.get raises (timeout or       *)
(* transport error), or a response arrives with a status and a body.  The  *)
(* body is not JSON, or a JSON object that may hold a photos list; a photo *)
(* may hold src.original.                                                  *)
(***************************************************************************)
fallback_image == "https://images.pexels.com/photos/1640777/pexels-photo-1640777.jpeg"

PhotoUrl == "https://images.pexels.com/photos/1/original.jpeg"

GoodPhoto == [has_src |-> TRUE, original |-> PhotoUrl]
BadPhoto == [has_src |-> FALSE, original |-> ""]

Bodies ==
    {[is_json |-> FALSE, has_photos |-> FALSE, photos |-> <<>>],
     [is_json |-> TRUE, has_photos |-> FALSE, photos |-> <<>>],
     [is_json |-> TRUE, has_photos |-> TRUE, photos |-> <<>>],
     [is_json |-> TRUE, has_photos |-> TRUE, photos |-> <<GoodPhoto>>],
     [is_json |-> TRUE, has_photos |-> TRUE, photos |-> <<BadPhoto>>]}

SearchOutcomes ==
    {[raises |-> TRUE, status |-> 0, body |-> b] :
        b \in {[is_json |-> FALSE, has_photos |-> FALSE, photos |-> <<>>]}}
      \cup {[raises |-> FALSE, status |-> st, body |-> b] : st \in {200, 404, 500}, b \in Bodies}

Keys == {None, Str(""), Str("pexels-key")}

\* the result of the tool, whether a search request was issued, and its query
ImageResult(r, requested, query) ==
    [raised |-> r.raised, value |-> r.value, requested |-> requested, query |-> query]

\* lines 107-115: the body of the try block
SearchAndPick(search) ==
    IF search.raises THEN Raise                              \* requests.get, line 109
    ELSE IF search.status >= 400 THEN Raise                  \* raise_for_status, line 110
    ELSE IF ~search.body.is_json THEN Raise                  \* response.json(), line 111
    ELSE IF ~search.body.has_photos THEN Raise               \* data["photos"], line 112
    ELSE IF Len(search.body.photos) = 0 THEN Return(fallback_image)
    ELSE IF ~search.body.photos[1].has_src THEN Raise        \* ["src"]["original"], line 113
    ELSE Return(search.body.photos[1].original)

\* a resolver that does not look at the response status
generate_recipe_image_no_status(key, image_keywords, search) ==
    IF ~Truthy(key) THEN ImageResult(Return(fallback_image), FALSE, "")
    ELSE LET r == SearchAndPick([search EXCEPT !.status = 200])
         IN  ImageResult(IF r.raised THEN Return(fallback_image) ELSE r, TRUE, image_keywords)

generate_recipe_image(key, image_keywords, search) ==
    IF ~Truthy(key) THEN ImageResult(Return(fallback_image), FALSE, "")
    ELSE LET r == SearchAndPick(search)
         IN  ImageResult(IF r.raised THEN Return(fallback_image) ELSE r, TRUE, image_keywords)

(***************************************************************************)
(* create_recipe_pdf, lines 134-195                                        *)
(*                                                                         *)
(* The environment of one rendering: whether the font files load, the      *)
(* outcome of the image GET, whether reading and writing the image bytes   *)
(* into the temporary file works, whether FPDF accepts the image.          *)
(***************************************************************************)
RenderEnv(fonts_ok, fetch_raises, status, write_ok, embed_ok) ==
    [fonts_ok |-> fonts_ok, fetch_raises |-> fetch_raises, status |-> status,
     write_ok |-> write_ok, embed_ok |-> embed_ok]

RenderEnvs ==
    {RenderEnv(FALSE, FALSE, 200, TRUE, TRUE),    \* a font file is missing
     RenderEnv(TRUE, TRUE, 0, TRUE, TRUE),        \* timeout / transport error
     RenderEnv(TRUE, FALSE, 404, TRUE, TRUE),
     RenderEnv(TRUE, FALSE, 500, TRUE, TRUE),
     RenderEnv(TRUE, FALSE, 200, FALSE, TRUE),    \* image_response.content / write raises
     RenderEnv(TRUE, FALSE, 200, TRUE, FALSE),    \* pdf.image raises
     RenderEnv(TRUE, FALSE, 200, TRUE, TRUE)}

\* tempfile.NamedTemporaryFile: a name no existing file has
NewTmp(fs) == CHOOSE n \in 1..(Cardinality(fs) + 1) : n \notin fs

\* lines 164-166; image_path 0 is None
Finally(image_path, fs) == IF image_path # 0 /\ image_path \in fs THEN fs \ {image_path} ELSE fs

ImageBlockResult(raised, embedded, fs) == [raised |-> raised, embedded |-> embedded, fs |-> fs]

\* lines 155-166
ImageBlock(image_url, env, fs) ==
    IF image_url.kind # "str" \/ env.fetch_raises
    THEN ImageBlockResult(TRUE, FALSE, Finally(0, fs))               \* line 157 raises
    ELSE IF env.status # 200
    THEN ImageBlockResult(FALSE, FALSE, Finally(0, fs))              \* line 158
    ELSE LET tmp == NewTmp(fs)                                       \* line 159
             created == fs \cup {tmp}
         IN  IF ~env.write_ok
             THEN ImageBlockResult(TRUE, FALSE, Finally(0, created)) \* line 160 raises
             ELSE IF ~env.embed_ok
             THEN ImageBlockResult(TRUE, FALSE, Finally(tmp, created))   \* line 162 raises
             ELSE ImageBlockResult(FALSE, TRUE, Finally(tmp, created))

PdfResult(raised, blocks, fs) == [raised |-> raised, blocks |-> blocks, fs |-> fs]

create_recipe_pdf(recipe_data, nutrition_data, image_url, env, fs) ==
    IF ~env.fonts_ok THEN PdfResult(TRUE, <<>>, fs)                              \* lines 138-142
    ELSE IF ~HasKey(recipe_data, "title") THEN PdfResult(TRUE, <<>>, fs)         \* line 146
    ELSE IF ~HasKey(recipe_data, "description") THEN PdfResult(TRUE, <<"title">>, fs)
    ELSE LET img == ImageBlock(image_url, env, fs)
             b == <<"title", "description">> \o (IF img.embedded THEN <<"image">> ELSE <<>>)
         IN  IF img.raised THEN PdfResult(TRUE, b, img.fs)
             ELSE IF ~HasKeys(nutrition_data, NutritionKeys)                     \* lines 172-174
             THEN PdfResult(TRUE, b, img.fs)
             ELSE IF ~HasKey(recipe_data, "ingredients")                         \* line 182
             THEN PdfResult(TRUE, b \o <<"nutrition">>, img.fs)
             ELSE IF ~HasKey(recipe_data, "instructions")                        \* line 190
             THEN PdfResult(TRUE, b \o <<"nutrition", "ingredients">>, img.fs)
             ELSE PdfResult(FALSE, b \o <<"nutrition", "ingredients", "instructions">>, img.fs)

(***************************************************************************)
(* The Streamlit script, lines 201-279.  Every user interaction runs the   *)
(* script from the top: the Generate handler when the button was pressed,  *)
(* then the display section.                                               *)
(***************************************************************************)
NoLlm == [raises |-> FALSE, content |-> <<>>]
NoSearch == [raises |-> FALSE, status |-> 0,
             body |-> [is_json |-> FALSE, has_photos |-> FALSE, photos |-> <<>>]]

\* the script's variables before the handler has assigned them
NoLocals ==
    [recipe_llm |-> NoLlm, recipe_json_str |-> Raise, recipe_data |-> None,
     search |-> NoSearch, image_url |-> ImageResult(Raise, FALSE, ""),
     nutrition_llm |-> NoLlm, recipe_text |-> <<>>, nutrition_json_str |-> Raise,
     nutrition_data |-> None, stage |-> "none"]

NoEnv == RenderEnv(TRUE, FALSE, 0, TRUE, TRUE)

\* an empty page
NoOut == [view |-> "blank", rendered |-> FALSE, env |-> NoEnv, raised |-> FALSE, blocks |-> <<>>]

NoText == [kind |-> "none", input |-> <<>>, op |-> "none", i |-> 0, output |-> <<>>]

Ingredients == {"", "chicken, broccoli, pasta"}

\* lines 201-206, and the module-level set-up
Init ==
    /\ pc = "idle"
    /\ PEXELS_API_KEY \in Keys
    /\ session_state = [recipe_data |-> None, nutrition_data |-> None, image_url |-> None]
    /\ stamp = [recipe_data |-> 0, nutrition_data |-> 0, image_url |-> 0]
    /\ run = 0
    /\ locals = NoLocals
    /\ calls = <<>>
    /\ tmpfiles = {}
    /\ out = NoOut
    /\ text = NoText

\* lines 213-220: a user interaction starts a script run; the pipeline runs when the
\* button was pressed and ingredients is not empty
Interact ==
    /\ pc = "idle"
    /\ \E button \in BOOLEAN, ingredients \in Ingredients :
          IF button /\ ingredients # ""
          THEN /\ run < MaxRuns
               /\ run' = run + 1
               /\ pc' = "create_recipe"
          ELSE /\ run' = run
               /\ pc' = "display"
    /\ locals' = NoLocals
    /\ calls' = <<>>
    /\ out' = NoOut
    /\ UNCHANGED <<PEXELS_API_KEY, session_state, stamp, tmpfiles, text>>

\* lines 222-224; an exception goes to the handler of line 233
StepRecipe ==
    /\ pc = "create_recipe"
    /\ \E llm \in LlmOutcomes(RecipeDocs) :
          LET r == create_recipe(llm)
              l == [locals EXCEPT !.recipe_llm = llm, !.recipe_json_str = r, !.stage = "recipe"]
          IN  IF r.raised \/ ~JsonParses(r.value)
              THEN /\ locals' = l
                   /\ pc' = "display"
                   /\ UNCHANGED <<session_state, stamp>>
              ELSE /\ locals' = [l EXCEPT !.recipe_data = JsonLoads(r.value)]
                   /\ session_state' = [session_state EXCEPT !.recipe_data = JsonLoads(r.value)]
                   /\ stamp' = [stamp EXCEPT !.recipe_data = run]
                   /\ pc' = "generate_recipe_image"
    /\ calls' = Append(calls, "create_recipe")
    /\ UNCHANGED <<PEXELS_API_KEY, run, tmpfiles, out, text>>

\* lines 226-227
StepImage ==
    /\ pc = "generate_recipe_image"
    /\ IF ~HasKey(locals.recipe_data, "image_keywords")
       THEN /\ pc' = "display"                       \* recipe_data['image_keywords'] raises
            /\ UNCHANGED <<locals, calls, session_state, stamp>>
       ELSE \E search \in SearchOutcomes :
               LET r == generate_recipe_image(PEXELS_API_KEY,
                                                locals.recipe_data.obj.image_keywords, search)
                   l == [locals EXCEPT !.search = search, !.image_url = r, !.stage = "image"]
               IN  /\ locals' = l
                   /\ calls' = Append(calls, "generate_recipe_image")
                   /\ IF r.raised
                      THEN /\ pc' = "display"
                           /\ UNCHANGED <<session_state, stamp>>
                      ELSE /\ session_state' = [session_state EXCEPT !.image_url = Str(r.value)]
                           /\ stamp' = [stamp EXCEPT !.image_url = run]
                           /\ pc' = "get_nutritional_info"
    /\ UNCHANGED <<PEXELS_API_KEY, run, tmpfiles, out, text>>

\* lines 229-231
StepNutrition ==
    /\ pc = "get_nutritional_info"
    /\ \E llm \in LlmOutcomes(NutritionDocs) :
          LET r == get_nutritional_info(llm)
              l == [locals EXCEPT !.nutrition_llm = llm, !.nutrition_json_str = r,
                                  !.recipe_text = JsonDumps(locals.recipe_data),
                                  !.stage = "nutrition"]
          IN  IF r.raised \/ ~JsonParses(r.value)
              THEN /\ locals' = l
                   /\ UNCHANGED <<session_state, stamp>>
              ELSE /\ locals' = [l EXCEPT !.nutrition_data = JsonLoads(r.value)]
                   /\ session_state' = [session_state EXCEPT !.nutrition_data = JsonLoads(r.value)]
                   /\ stamp' = [stamp EXCEPT !.nutrition_data = run]
    /\ calls' = Append(calls, "get_nutritional_info")
    /\ pc' = "display"
    /\ UNCHANGED <<PEXELS_API_KEY, run, tmpfiles, out, text>>

\* lines 242-264: what the display section reads
DisplayReads(ss) ==
    /\ ss.image_url.kind = "str"
    /\ HasKeys(ss.recipe_data, {"title", "description", "ingredients", "instructions"})
    /\ HasKeys(ss.nutrition_data, NutritionKeys)

\* lines 236-279; the script run ends here
Display ==
    /\ pc = "display"
    /\ \E env \in RenderEnvs :
          /\ ~env.write_ok => Cardinality(tmpfiles) < MaxTmp
          /\ IF ~Truthy(session_state.recipe_data)
             THEN /\ out' = NoOut
                  /\ UNCHANGED tmpfiles
             ELSE IF ~DisplayReads(session_state)
             THEN /\ out' = [NoOut EXCEPT !.view = "exception"]
                  /\ UNCHANGED tmpfiles
             ELSE LET pdf == create_recipe_pdf(session_state.recipe_data,
                                               session_state.nutrition_data,
                                               session_state.image_url, env, tmpfiles)
                  IN  /\ out' = [view |-> IF pdf.raised THEN "exception" ELSE "download",
                                 rendered |-> TRUE, env |-> env,
                                 raised |-> pdf.raised, blocks |-> pdf.blocks]
                      /\ tmpfiles' = pdf.fs
    /\ pc' = "idle"
    /\ locals' = NoLocals
    /\ calls' = <<>>
    /\ UNCHANGED <<PEXELS_API_KEY, session_state, stamp, run, text>>

Next == Interact \/ StepRecipe \/ StepImage \/ StepNutrition \/ Display

Spec == Init /\ [][Next]_vars

(***************************************************************************)
(* The text transformations of lines 191, 263 and 276.  A string is a      *)
(* sequence of characters.                                                 *)
(***************************************************************************)
Digits == {"0", "1", "2", "3", "4", "5", "6", "7", "8", "9"}
Lower == {"a", "b", "c", "d", "e", "f", "g", "h", "i", "j", "k", "l", "m",
          "n", "o", "p", "q", "r", "s", "t", "u", "v", "w", "x", "y", "z"}
Upper == {"A", "B", "C", "D", "E", "F", "G", "H", "I", "J", "K", "L", "M",
          "N", "O", "P", "Q", "R", "S", "T", "U", "V", "W", "X", "Y", "Z"}
\* the regex class \s and the characters str.strip() removes
Whitespace == {" ", "\t", "\n", "\r"}
\* the regex class [.)\s]
Separators == {".", ")"} \cup Whitespace

StepChars == {"1", "2", ".", ")", " ", "a", "-"}
\* one character that is a letter but not an ASCII letter (e with an acute accent)
NonAsciiLetter == "e-acute"

TitleChars == {"a", "Z", "0", " ", "!", "_", NonAsciiLetter}

Strings(chars, n) == UNION {[1..k -> chars] : k \in 0..n}

\* instructions and a title written out in full
PreheatTheOven == <<"P", "r", "e", "h", "e", "a", "t", " ", "t", "h", "e", " ", "o", "v", "e", "n">>
MixWell == <<"M", "i", "x", " ", "w", "e", "l", "l">>
ExampleSteps ==
    {PreheatTheOven, <<"1", ".", " ">> \o PreheatTheOven, <<"2", ")", " ">> \o MixWell,
     <<"a", ")", " ">> \o MixWell, <<"-", " ">> \o MixWell, MixWell \o <<" ">>}
SpicyGarlicShrimp ==
    <<"S", "p", "i", "c", "y", " ", "G", "a", "r", "l", "i", "c", " ",
      "S", "h", "r", "i", "m", "p", "!">>

Drop(s, n) == SubSeq(s, n + 1, Len(s))

\* the length of the longest prefix of s made of characters of class
RECURSIVE LeadRun(_, _)
LeadRun(s, class) ==
    IF s # <<>> /\ Head(s) \in class THEN 1 + LeadRun(Tail(s), class) ELSE 0

RECURSIVE TrailRun(_, _)
TrailRun(s, class) ==
    IF s # <<>> /\ s[Len(s)] \in class THEN 1 + TrailRun(SubSeq(s, 1, Len(s) - 1), class) ELSE 0

\* str.strip() on a string of characters
StripStr(s) ==
    LET t == Drop(s, LeadRun(s, Whitespace))
    IN  SubSeq(t, 1, Len(t) - TrailRun(t, Whitespace))

\* re.sub(r"^[0-9]+[.)\s]+", "", s): greedy digits, then greedy separators, at the start
SubNumberPrefix(s) ==
    LET n == LeadRun(s, Digits)
        m == LeadRun(Drop(s, n), Separators)
    IN  IF n >= 1 /\ m >= 1 THEN Drop(s, n + m) ELSE s

DigitChar == <<"0", "1", "2", "3", "4", "5", "6", "7", "8", "9">>

\* the decimal numeral of i, as the f-string writes it
RECURSIVE Decimal(_)
Decimal(i) == IF i < 10 THEN <<DigitChar[i + 1]>> ELSE Decimal(i \div 10) \o <<DigitChar[(i % 10) + 1]>>

\* the f-string of lines 192 and 264
NumberedLine(i, clean) == Decimal(i) \o <<".", " ">> \o clean

\* a renderer that forgets .strip()
clean_step_no_strip(step) == SubNumberPrefix(step)

\* line 191
clean_step(step) == StripStr(SubNumberPrefix(step))

\* line 263
clean_instruction(instruction) == StripStr(SubNumberPrefix(instruction))

\* a file name built with str.isalnum, which is true of non-ASCII letters too
file_name_isalnum(title) ==
    [k \in 1..Len(title) |->
        IF title[k] \in Lower \cup Upper \cup Digits \cup {NonAsciiLetter} THEN title[k] ELSE "_"]
      \o <<".", "p", "d", "f">>

\* line 276: re.sub(r'[^a-zA-Z0-9]', '_', title) followed by .pdf
file_name(title) ==
    [k \in 1..Len(title) |->
        IF title[k] \in Lower \cup Upper \cup Digits THEN title[k] ELSE "_"]
      \o <<".", "p", "d", "f">>

\* the instruction or the title the transformation is applied to
InitText ==
    /\ pc = "idle"
    /\ PEXELS_API_KEY = None
    /\ session_state = [recipe_data |-> None, nutrition_data |-> None, image_url |-> None]
    /\ stamp = [recipe_data |-> 0, nutrition_data |-> 0, image_url |-> 0]
    /\ run = 0
    /\ locals = NoLocals
    /\ calls = <<>>
    /\ tmpfiles = {}
    /\ out = NoOut
    /\ \E kind \in {"step", "title"} :
          \E input \in IF kind = "step"
                       THEN Strings(StepChars, MaxLen) \cup ExampleSteps
                       ELSE Strings(TitleChars, MaxLen) \cup {SpicyGarlicShrimp} :
             text = [NoText EXCEPT !.kind = kind, !.input = input]

\* lines 190-193: the loop body for the i-th instruction
RenderInstruction ==
    /\ text.kind = "step"
    /\ \E i \in 1..MaxSteps :
          text' = [text EXCEPT !.op = "pdf", !.i = i,
                               !.output = NumberedLine(i, clean_step(text.input))]
    /\ UNCHANGED <<pc, PEXELS_API_KEY, session_state, stamp, run, locals, calls, tmpfiles, out>>

\* lines 262-264: the loop body for the i-th instruction
DisplayInstruction ==
    /\ text.kind = "step"
    /\ \E i \in 1..MaxSteps :
          text' = [text EXCEPT !.op = "display", !.i = i,
                               !.output = NumberedLine(i, clean_instruction(text.input))]
    /\ UNCHANGED <<pc, PEXELS_API_KEY, session_state, stamp, run, locals, calls, tmpfiles, out>>

\* lines 273-279
DownloadButton ==
    /\ text.kind = "title"
    /\ text' = [text EXCEPT !.op = "file_name", !.output = file_name(text.input)]
    /\ UNCHANGED <<pc, PEXELS_API_KEY, session_state, stamp, run, locals, calls, tmpfiles, out>>

NextText == RenderInstruction \/ DisplayInstruction \/ DownloadButton

SpecText == InitText /\ [][NextText]_vars

(***************************************************************************)
(* Properties                                                              *)
(***************************************************************************)

\* the contents that are one JSON document once the fences and the whitespace
\* around it are removed
ParseableContents(docs) ==
    {<<Json(d)>> : d \in docs} \cup {<<FenceJson, Ws, Json(d), Ws, Fence>> : d \in docs}

GenerationFails(llm, docs) == llm.raises \/ llm.content \notin ParseableContents(docs)

\* C1: whenever the text-generation service raises or answers with text that is not
\* JSON after the fences are stripped, create_recipe returns the serialized sentinel
\* record (which the pipeline loads as the sentinel record) and raises nothing.
C1_SentinelOnFailure ==
    (locals.stage = "recipe" /\ GenerationFails(locals.recipe_llm, RecipeDocs))
        => /\ ~locals.recipe_json_str.raised
           /\ locals.recipe_json_str.value = JsonDumps(SentinelRecipe)
           /\ locals.recipe_data = SentinelRecipe
           /\ DOMAIN locals.recipe_data.obj = RecipeKeys

C1_Witness ==
    /\ locals.stage = "recipe"
    /\ locals.recipe_llm.content = <<Fence, Prose, Fence>>
    /\ session_state.recipe_data = SentinelRecipe

\* C2: for every response of the text-generation service the record create_recipe
\* returns has all five fields; valid JSON of the wrong shape becomes the sentinel.
C2_AllFieldsPresent ==
    locals.stage = "recipe"
        => /\ ~locals.recipe_json_str.raised
           /\ HasKeys(locals.recipe_data, RecipeKeys)

\* the search answered 2xx with a JSON body whose photos list is not empty
SuccessWithResults(search) ==
    /\ ~search.raises
    /\ search.status \in 200..299
    /\ search.body.is_json
    /\ search.body.has_photos
    /\ Len(search.body.photos) >= 1

\* C3: generate_recipe_image never raises and returns a non-empty URL for every
\* outcome of the search; the URL is the fallback in every outcome but success with
\* results; without a credential it is the fallback and no search request is issued.
C3_ImageResolverTotal ==
    locals.stage = "image"
        => /\ ~locals.image_url.raised
           /\ locals.image_url.value # ""
           /\ (~SuccessWithResults(locals.search) => locals.image_url.value = fallback_image)
           /\ (PEXELS_API_KEY \in {None, Str("")}
                  => /\ locals.image_url.value = fallback_image
                     /\ ~locals.image_url.requested)

C3_Witness ==
    /\ locals.stage = "image"
    /\ PEXELS_API_KEY = Str("pexels-key")
    /\ locals.search.status = 500
    /\ locals.image_url.requested
    /\ locals.image_url.query = "chicken pasta"
    /\ session_state.image_url = Str(fallback_image)

\* C4: every failure of the image fetch (a status that is not 2xx, a timeout, a
\* transport error) is absorbed by create_recipe_pdf: the image block is omitted, the
\* other blocks are rendered and the bytes are returned.
C4_FetchFailureAbsorbed ==
    (out.rendered /\ out.env.fonts_ok /\ (out.env.fetch_raises \/ out.env.status \notin 200..299))
        => /\ ~out.raised
           /\ out.blocks = <<"title", "description", "nutrition", "ingredients", "instructions">>

\* C5: on every exit path from the image block of create_recipe_pdf, no temporary
\* file that was created to stage the image bytes still exists.
C5_NoTempFileLeft == tmpfiles = {}

Slots == {"recipe_data", "nutrition_data", "image_url"}

\* C6: when the display section runs, the session state is entirely empty or holds a
\* recipe, a nutrition record and an image URL written by the same pipeline run.
C6_SessionAtomic ==
    pc \in {"display", "idle"}
        => \/ \A k \in Slots : session_state[k] = None
           \/ /\ \A k \in Slots : session_state[k] # None
              /\ \A k \in Slots : stamp[k] = stamp.recipe_data

\* C7: every pipeline run calls create_recipe, generate_recipe_image and
\* get_nutritional_info in this order, each exactly once, and get_nutritional_info
\* receives the serialized recipe, also when the recipe is the sentinel.
C7_StagesInOrder ==
    (pc = "display" /\ calls # <<>>)
        => /\ calls = <<"create_recipe", "generate_recipe_image", "get_nutritional_info">>
           /\ locals.recipe_text = JsonDumps(locals.recipe_data)

\* The part of C7 that holds: a run whose recipe has the image_keywords key goes
\* through the three stages in order, once each, the sentinel recipe included.
StagesInOrderWithKeywords ==
    (pc = "display" /\ calls # <<>> /\ HasKey(locals.recipe_data, "image_keywords"))
        => /\ calls = <<"create_recipe", "generate_recipe_image", "get_nutritional_info">>
           /\ locals.recipe_text = JsonDumps(locals.recipe_data)

\* C8: get_nutritional_info never raises and returns a record with all five nutrition
\* fields; on a service error, a non-JSON answer or JSON without the required keys
\* the record is the sentinel.
C8_NutritionSentinel ==
    locals.stage = "nutrition"
        => /\ ~locals.nutrition_json_str.raised
           /\ HasKeys(locals.nutrition_data, NutritionKeys)
           /\ (GenerationFails(locals.nutrition_llm, {PastaNutrition})
                  => locals.nutrition_data = SentinelNutrition)

\* s starts with n digits followed by m separators, and no separator follows them
IsNumberPrefix(s, n, m) ==
    /\ n >= 1 /\ m >= 1 /\ n + m <= Len(s)
    /\ \A k \in 1..n : s[k] \in Digits
    /\ \A k \in (n + 1)..(n + m) : s[k] \in Separators
    /\ n + m < Len(s) => s[n + m + 1] \notin Separators

HasNumberPrefix(s) == \E n, m \in 1..Len(s) : IsNumberPrefix(s, n, m)

\* s without its number prefix, if it has one
WithoutNumberPrefix(s) ==
    IF HasNumberPrefix(s)
    THEN {Drop(s, n + m) : <<n, m>> \in {p \in (1..Len(s)) \X (1..Len(s)) : IsNumberPrefix(s, p[1], p[2])}}
    ELSE {s}

\* c is r without the whitespace at its two ends
IsTrimOf(c, r) ==
    /\ \E a \in 1..(Len(r) + 1), b \in 0..Len(r) :
          /\ c = SubSeq(r, a, b)
          /\ \A k \in 1..(a - 1) : r[k] \in Whitespace
          /\ \A k \in (b + 1)..Len(r) : r[k] \in Whitespace
    /\ c # <<>> => (c[1] \notin Whitespace /\ c[Len(c)] \notin Whitespace)

Surrounded(s) == s # <<>> /\ (s[1] \in Whitespace \/ s[Len(s)] \in Whitespace)

\* the text that follows the renderer's own number in an emitted line
Emitted == Drop(text.output, 3)

OwnNumber == SubSeq(text.output, 1, 3) = <<DigitChar[text.i + 1], ".", " ">>

\* C9 (as stated): the stripping removes exactly the number prefix and leaves an
\* instruction without one unchanged; the i-th instruction is emitted as i followed
\* by the stripped text.
C9_StripExactlyPrefix ==
    text.op \in {"pdf", "display"}
        => /\ OwnNumber
           /\ Emitted \in WithoutNumberPrefix(text.input)

\* C9 (amended): the stripping removes the number prefix and then the whitespace at
\* both ends; an instruction with no number prefix and no whitespace at its ends is
\* unchanged; the i-th instruction is emitted as i followed by the stripped text.
C9_StripPrefixAndTrim ==
    text.op \in {"pdf", "display"}
        => /\ OwnNumber
           /\ \E r \in WithoutNumberPrefix(text.input) : IsTrimOf(Emitted, r)
           /\ (~HasNumberPrefix(text.input) /\ ~Surrounded(text.input)) => Emitted = text.input
           /\ (text.input # <<>> /\ text.input[1] \in Lower \cup {"-"} /\ ~Surrounded(text.input))
                  => Emitted = text.input

C9_Witness ==
    /\ text.op = "pdf"
    /\ text.i = 1
    /\ text.input = <<"2", ")", " ">> \o MixWell
    /\ text.output = <<"1", ".", " ">> \o MixWell

\* C10: the download file name is the title with every character that is not an
\* ASCII letter or digit replaced by an underscore, one for one, followed by .pdf.
C10_FileName ==
    text.op = "file_name"
        => /\ Len(text.output) = Len(text.input) + 4
           /\ \A k \in 1..Len(text.input) :
                 text.output[k] = IF text.input[k] \in Lower \cup Upper \cup Digits
                                  THEN text.input[k] ELSE "_"
           /\ SubSeq(text.output, Len(text.input) + 1, Len(text.output)) = <<".", "p", "d", "f">>

C10_Witness ==
    /\ text.op = "file_name"
    /\ text.input = SpicyGarlicShrimp
    /\ text.output = <<"S", "p", "i", "c", "y", "_", "G", "a", "r", "l", "i", "c", "_",
                       "S", "h", "r", "i", "m", "p", "_", ".", "p", "d", "f">>

====
